---------------------------- MODULE Spec2Model ----------------------------
(* A model of src/app/convert_spv.py: the SPIR-V byte-to-literal          *)
(* transcoder.  One process: the argument check of __main__, then         *)
(* convert_spv_to_inl (open + read the source, open the destination, the  *)
(* enumerate loop with its two f.write calls, the release of the handle), *)
(* then the confirmation message.  The file system maps a path to a       *)
(* file; a file's content is a sequence of bytes; a Python str is a       *)
(* sequence of one-character strings, encoded when it reaches the file.   *)
EXTENDS Integers, Sequences, FiniteSets, TLC

(* ------------------------------ bounds ------------------------------ *)

\* longest source file explored (bytes)
MaxLen == 13
\* the length of the one longer source file explored: a third line
LongLen == 25
\* largest len(sys.argv) explored
MaxArgc == 4

(* ------------------------- program constants ------------------------ *)

\* `if len(sys.argv) != 3`
ExpectedArgc == 3
\* `if i % 12 == 0`
BytesPerLine == 12
\* the width of the format specification `02x`
HexWidth == 2
\* the base of the format specification `02x`
HexBase == 16
\* `sys.exit(1)`; also the status of an uncaught exception
ExitFailure == 1
\* the status of a script that runs to its end
ExitSuccess == 0
\* a byte of a bytes object is an int in range(256)
ByteRange == 256

(* --------------------------- pure functions ------------------------- *)

HexDigitsUpper == <<"0","1","2","3","4","5","6","7","8","9","A","B","C","D","E","F">>
\* the digits of format type 'x': lowercase
HexDigits == <<"0","1","2","3","4","5","6","7","8","9","a","b","c","d","e","f">>

RECURSIVE ToHex(_)
\* format type 'x': the number in base 16, most significant digit first
ToHex(n) ==
    IF n < HexBase THEN <<HexDigits[n + 1]>>
    ELSE Append(ToHex(n \div HexBase), HexDigits[(n % HexBase) + 1])

RECURSIVE ZeroPad(_, _)
\* the `0` flag with a minimum width: zeros on the left up to the width
ZeroPad(s, width) ==
    IF Len(s) >= width THEN s ELSE ZeroPad(<<"0">> \o s, width)

FormatNoPad(byte) == ToHex(byte)
\* f'{byte:02x}'
Format02x(byte) == ZeroPad(ToHex(byte), HexWidth)

\* f'0x{byte:02x}, '
Token(byte) == <<"0", "x">> \o Format02x(byte) \o <<",", " ">>

\* the literal '\n    '
NewlineIndent == <<"\n", " ", " ", " ", " ">>

IndentEvery(i) == TRUE
\* `if i % 12 == 0`
NeedsIndent(i) == i % BytesPerLine = 0

ArgcAtLeast(n) == n >= ExpectedArgc
\* the negation of `len(sys.argv) != 3`
ArgcOk(n) == n = ExpectedArgc

\* the code of a character the program writes (all are ASCII, one byte
\* each in the encoding of the text file)
Ord(c) ==
    CASE c = "\n" -> 10 [] c = " " -> 32 [] c = "," -> 44 [] c = "x" -> 120
      [] c = "0" -> 48 [] c = "1" -> 49 [] c = "2" -> 50 [] c = "3" -> 51
      [] c = "4" -> 52 [] c = "5" -> 53 [] c = "6" -> 54 [] c = "7" -> 55
      [] c = "8" -> 56 [] c = "9" -> 57
      [] c = "a" -> 97 [] c = "b" -> 98 [] c = "c" -> 99 [] c = "d" -> 100
      [] c = "e" -> 101 [] c = "f" -> 102
      [] c = "A" -> 65 [] c = "B" -> 66 [] c = "C" -> 67 [] c = "D" -> 68
      [] c = "E" -> 69 [] c = "F" -> 70
      [] OTHER -> 63

\* the bytes of a str written to the text-mode file
Encode(text) == [k \in 1..Len(text) |-> Ord(text[k])]

(* ------------------------------ inputs ------------------------------ *)

SrcPath == "in.spv"
OutPath == "out.inl"
Paths == {SrcPath, OutPath}

Seeds == {0, 250}
Steps == {1, 17}
\* a source file of n bytes: seed, seed+step, ... (mod 256)
Ramp(seed, step, n) == [k \in 1..n |-> (seed + (k - 1) * step) % ByteRange]
SrcContents ==
    { Ramp(s, t, n) : s \in Seeds, t \in Steps, n \in 0..MaxLen }
    \cup { Ramp(250, 1, LongLen) }

\* what the path in.spv may name when the run starts: a regular file, no
\* file, a file without read permission, a directory, a file whose read
\* fails
SrcFiles ==
    { [kind |-> "file", content |-> c] : c \in SrcContents }
    \cup { [kind |-> k, content |-> <<>>] : k \in {"absent", "unreadable", "dir", "ioerror"} }

\* older destination content: one byte, an older rendering, and a text
\* longer than the rendering of any source file explored
OldShort == <<35>>
OldInl == Encode(NewlineIndent \o <<"0","x","d","e",","," ","0","x","a","d",","," ">>)
OldLong == [k \in 1..(8 * (MaxLen + LongLen)) |-> 35]

\* what the path out.inl may name when the run starts: no file, no parent
\* directory, a regular file, a file without write permission
DstFiles ==
    { [kind |-> "absent", content |-> <<>>],
      [kind |-> "nodir", content |-> <<>>],
      [kind |-> "file", content |-> <<>>],
      [kind |-> "file", content |-> OldShort],
      [kind |-> "file", content |-> OldInl],
      [kind |-> "file", content |-> OldLong],
      [kind |-> "readonly", content |-> OldInl] }

\* sys.argv of length n: the program name, the source path, the
\* destination path (out.inl, or the source path again), then more
ArgvOf(n, out) ==
    [k \in 1..n |-> IF k = 1 THEN "convert_spv.py"
                    ELSE IF k = 2 THEN SrcPath
                    ELSE IF k = 3 THEN out
                    ELSE "extra"]
Argvs == { ArgvOf(n, out) : n \in 1..MaxArgc, out \in Paths }

(* ------------------------------- state ------------------------------ *)

VARIABLES
    pc,         \* the position of the process
    argv,       \* sys.argv
    fs,         \* the file system: path -> file
    srcOpen,    \* the source handle is open
    dstOpen,    \* the destination handle is open
    data,       \* the local `data`
    i,          \* the loop index `i`
    handed,     \* the characters passed to f.write so far
    stdout,     \* the messages printed
    stderr,     \* the uncaught exception: <<class, line>>
    exitStatus, \* <<>> while running, <<status>> once terminated
    fs0,        \* history: the file system when the run started
    opened,     \* history: the <<path, mode>> pairs this run has opened
    prevRun     \* history: the first successful run on this source: whether
                \* it started with no destination file, and what it left

vars == <<pc, argv, fs, srcOpen, dstOpen, data, i, handed,
          stdout, stderr, exitStatus, fs0, opened, prevRun>>

\* no successful run yet
NoRun == [set |-> FALSE, fresh |-> FALSE, content |-> <<>>]

\* the two arguments name the same file
SamePath == Len(argv) >= 3 /\ argv[3] = argv[2]

Init ==
    /\ pc = "main"
    /\ argv \in Argvs
    /\ fs \in [Paths -> SrcFiles \cup DstFiles]
    /\ fs[SrcPath] \in SrcFiles
    /\ fs[OutPath] \in DstFiles
    /\ SamePath => fs[OutPath].kind = "absent"
    /\ srcOpen = FALSE
    /\ dstOpen = FALSE
    /\ data = <<>>
    /\ i = 0
    /\ handed = <<>>
    /\ stdout = <<>>
    /\ stderr = <<>>
    /\ exitStatus = <<>>
    /\ fs0 = fs
    /\ opened = {}
    /\ prevRun = NoRun

(* ------------------------------ helpers ----------------------------- *)

\* the first n elements of s
Prefix(s, n) == SubSeq(s, 1, n)

OpenForAppend(file) == [kind |-> "file", content |-> file.content]
\* open(inl_file, 'w'): the file exists and is empty from then on
OpenForWrite(file) == [kind |-> "file", content |-> <<>>]

FlushAllNewline(file, buffer) ==
    [file EXCEPT !.content = file.content \o Encode(buffer) \o <<10>>]
\* the buffered characters reach the file, encoded, in order
FlushAll(file, buffer) == [file EXCEPT !.content = file.content \o Encode(buffer)]

\* open(path, 'rb') raises on these, with this class
ReadOpenError(file) ==
    CASE file.kind \in {"absent", "nodir"} -> "FileNotFoundError"
      [] file.kind = "unreadable" -> "PermissionError"
      [] file.kind = "dir" -> "IsADirectoryError"
      [] OTHER -> "none"

\* open(path, 'w') raises on these, with this class
WriteOpenError(file) ==
    CASE file.kind = "nodir" -> "FileNotFoundError"
      [] file.kind = "readonly" -> "PermissionError"
      [] file.kind = "dir" -> "IsADirectoryError"
      [] OTHER -> "none"

\* the process ends with an uncaught exception of class exc raised at
\* `line`: the traceback goes to stderr, the locals are gone, status 1
Die(exc, line) ==
    /\ pc' = "done"
    /\ stderr' = <<exc, line>>
    /\ exitStatus' = <<ExitFailure>>
    /\ data' = <<>>
    /\ i' = 0
    /\ handed' = <<>>

(* ------------------------------ actions ----------------------------- *)

ArgsOkDstFirst ==
    /\ pc = "main"
    /\ ArgcOk(Len(argv))
    /\ pc' = "open_dst"
    /\ UNCHANGED <<argv, fs, srcOpen, dstOpen, data, i, handed,
                   stdout, stderr, exitStatus, fs0, opened, prevRun>>

\* line 15, the condition false: go on to the call of line 19
ArgsOk ==
    /\ pc = "main"
    /\ ArgcOk(Len(argv))
    /\ pc' = "open_src"
    /\ UNCHANGED <<argv, fs, srcOpen, dstOpen, data, i, handed,
                   stdout, stderr, exitStatus, fs0, opened, prevRun>>

\* lines 15-17: the usage message and sys.exit(1)
Usage ==
    /\ pc = "main"
    /\ ~ArgcOk(Len(argv))
    /\ stdout' = Append(stdout, <<"Usage", argv[1]>>)
    /\ exitStatus' = <<ExitFailure>>
    /\ pc' = "done"
    /\ UNCHANGED <<argv, fs, srcOpen, dstOpen, data, i, handed,
                   stderr, fs0, opened, prevRun>>

\* line 5: open(spv_file, 'rb') succeeds
OpenSrc ==
    /\ pc = "open_src"
    /\ ReadOpenError(fs[argv[2]]) = "none"
    /\ srcOpen' = TRUE
    /\ opened' = opened \cup {<<argv[2], "rb">>}
    /\ pc' = "read"
    /\ UNCHANGED <<argv, fs, dstOpen, data, i, handed,
                   stdout, stderr, exitStatus, fs0, prevRun>>

OpenSrcFailSwallowed ==
    /\ pc = "open_src"
    /\ ReadOpenError(fs[argv[2]]) # "none"
    /\ opened' = opened \cup {<<argv[2], "rb">>}
    /\ pc' = "print"
    /\ UNCHANGED <<argv, fs, srcOpen, dstOpen, data, i, handed,
                   stdout, stderr, exitStatus, fs0, prevRun>>

\* line 5: open(spv_file, 'rb') raises
OpenSrcFail ==
    /\ pc = "open_src"
    /\ ReadOpenError(fs[argv[2]]) # "none"
    /\ opened' = opened \cup {<<argv[2], "rb">>}
    /\ Die(ReadOpenError(fs[argv[2]]), 5)
    /\ UNCHANGED <<argv, fs, srcOpen, dstOpen, stdout, fs0, prevRun>>

ReadSrcLeak ==
    /\ pc = "read"
    /\ fs[argv[2]].kind # "ioerror"
    /\ data' = fs[argv[2]].content
    /\ pc' = "open_dst"
    /\ UNCHANGED <<argv, fs, srcOpen, dstOpen, i, handed,
                   stdout, stderr, exitStatus, fs0, opened, prevRun>>

\* line 6 and the end of the first with block: data = f.read(), then the
\* source handle is released
ReadSrc ==
    /\ pc = "read"
    /\ fs[argv[2]].kind # "ioerror"
    /\ data' = fs[argv[2]].content
    /\ srcOpen' = FALSE
    /\ pc' = "open_dst"
    /\ UNCHANGED <<argv, fs, dstOpen, i, handed,
                   stdout, stderr, exitStatus, fs0, opened, prevRun>>

\* line 6: f.read() raises; the with block releases the handle
ReadFail ==
    /\ pc = "read"
    /\ fs[argv[2]].kind = "ioerror"
    /\ srcOpen' = FALSE
    /\ Die("OSError", 6)
    /\ UNCHANGED <<argv, fs, dstOpen, stdout, fs0, opened, prevRun>>

\* line 8: open(inl_file, 'w') succeeds: the file is created or truncated
OpenDst ==
    /\ pc = "open_dst"
    /\ WriteOpenError(fs[argv[3]]) = "none"
    /\ fs' = [fs EXCEPT ![argv[3]] = OpenForWrite(@)]
    /\ dstOpen' = TRUE
    /\ opened' = opened \cup {<<argv[3], "w">>}
    /\ i' = 0
    /\ handed' = <<>>
    /\ pc' = "loop"
    /\ UNCHANGED <<argv, srcOpen, data, stdout, stderr, exitStatus,
                   fs0, prevRun>>

\* line 8: open(inl_file, 'w') raises: no directory, or no permission
OpenDstFail ==
    /\ pc = "open_dst"
    /\ WriteOpenError(fs[argv[3]]) # "none"
    /\ opened' = opened \cup {<<argv[3], "w">>}
    /\ Die(WriteOpenError(fs[argv[3]]), 8)
    /\ UNCHANGED <<argv, fs, srcOpen, dstOpen, stdout, fs0, prevRun>>

\* lines 9-11: the next index of enumerate(data), and the newline and
\* indentation when the index is a multiple of 12
LoopHead ==
    /\ pc = "loop"
    /\ i < Len(data)
    /\ handed' = IF NeedsIndent(i) THEN handed \o NewlineIndent ELSE handed
    /\ pc' = "token"
    /\ UNCHANGED <<argv, fs, srcOpen, dstOpen, data, i,
                   stdout, stderr, exitStatus, fs0, opened, prevRun>>

\* line 12: the token of data[i] (a Python index: element i+1 here)
WriteToken ==
    /\ pc = "token"
    /\ handed' = handed \o Token(data[i + 1])
    /\ i' = i + 1
    /\ pc' = "loop"
    /\ UNCHANGED <<argv, fs, srcOpen, dstOpen, data,
                   stdout, stderr, exitStatus, fs0, opened, prevRun>>

\* line 11: f.write('\n    ') raises (the disk is full, say).  What was
\* handed over reaches the file up to some point k; the with block
\* releases the handle
WriteIndentFail ==
    /\ pc = "loop"
    /\ i < Len(data)
    /\ NeedsIndent(i)
    /\ \E k \in 0..Len(handed \o NewlineIndent) :
          fs' = [fs EXCEPT ![argv[3]] = FlushAll(@, Prefix(handed \o NewlineIndent, k))]
    /\ dstOpen' = FALSE
    /\ Die("OSError", 11)
    /\ UNCHANGED <<argv, srcOpen, stdout, fs0, opened, prevRun>>

\* line 12: f.write(token) raises
WriteTokenFail ==
    /\ pc = "token"
    /\ \E k \in 0..Len(handed \o Token(data[i + 1])) :
          fs' = [fs EXCEPT ![argv[3]] =
                    FlushAll(@, Prefix(handed \o Token(data[i + 1]), k))]
    /\ dstOpen' = FALSE
    /\ Die("OSError", 12)
    /\ UNCHANGED <<argv, srcOpen, stdout, fs0, opened, prevRun>>

\* the end of the second with block after the loop: the buffer is
\* flushed, the handle released, the function returns
CloseDst ==
    /\ pc = "loop"
    /\ i = Len(data)
    /\ fs' = [fs EXCEPT ![argv[3]] = FlushAll(@, handed)]
    /\ dstOpen' = FALSE
    /\ data' = <<>>
    /\ i' = 0
    /\ handed' = <<>>
    /\ pc' = "print"
    /\ UNCHANGED <<argv, srcOpen, stdout, stderr, exitStatus,
                   fs0, opened, prevRun>>

\* the end of the second with block: the flush raises; the handle is
\* released all the same
CloseDstFail ==
    /\ pc = "loop"
    /\ i = Len(data)
    /\ \E k \in 0..Len(handed) :
          fs' = [fs EXCEPT ![argv[3]] = FlushAll(@, Prefix(handed, k))]
    /\ dstOpen' = FALSE
    /\ Die("OSError", 8)
    /\ UNCHANGED <<argv, srcOpen, stdout, fs0, opened, prevRun>>

\* line 20, and the end of the script: status 0
PrintConverted ==
    /\ pc = "print"
    /\ stdout' = Append(stdout, <<"Converted", argv[2], argv[3]>>)
    /\ exitStatus' = <<ExitSuccess>>
    /\ prevRun' = IF prevRun.set THEN prevRun
                  ELSE [set |-> TRUE, fresh |-> fs0[argv[3]].kind = "absent",
                        content |-> fs[argv[3]].content]
    /\ pc' = "done"
    /\ UNCHANGED <<argv, fs, srcOpen, dstOpen, data, i, handed,
                   stderr, fs0, opened>>

\* the same command is run again on the same source; in between, the
\* path out.inl was left alone (after a run that raised nothing) or set
\* to any of DstFiles
Restart ==
    /\ pc = "done"
    /\ fs[SrcPath] = fs0[SrcPath]
    /\ \E d \in (IF SamePath THEN {} ELSE DstFiles)
                \cup (IF stderr = <<>> \/ SamePath THEN {fs[OutPath]} ELSE {}) :
          fs' = [fs EXCEPT ![OutPath] = d]
    /\ fs0' = fs'
    /\ pc' = "main"
    /\ stdout' = <<>>
    /\ stderr' = <<>>
    /\ exitStatus' = <<>>
    /\ opened' = {}
    /\ UNCHANGED <<argv, srcOpen, dstOpen, data, i, handed, prevRun>>

\* a step of the running program
RunStep ==
    \/ ArgsOk
    \/ Usage
    \/ OpenSrc
    \/ OpenSrcFail
    \/ ReadSrc
    \/ ReadFail
    \/ OpenDst
    \/ OpenDstFail
    \/ LoopHead
    \/ WriteToken
    \/ WriteIndentFail
    \/ WriteTokenFail
    \/ CloseDst
    \/ CloseDstFail
    \/ PrintConverted

Next ==
    \/ RunStep
    \/ Restart

Spec == Init /\ [][Next]_vars

(* ------------------- the vocabulary of the properties ---------------- *)
(* What the properties say is written here from the documented format,   *)
(* with none of the operators the actions use.                            *)

\* the run ended with status 0
Succeeded == pc = "done" /\ exitStatus = <<0>>

\* the run ended with an uncaught exception raised at one of `lines`
RaisedAt(lines) == pc = "done" /\ stderr # <<>> /\ stderr[2] \in lines

\* the input: the bytes of the source file when the run started
B == fs0[argv[2]].content

\* the ASCII character of a byte of a text file; "?" for any other byte
Chr(b) ==
    CASE b = 10 -> "\n" [] b = 32 -> " " [] b = 44 -> "," [] b = 120 -> "x"
      [] b = 35 -> "#"
      [] b = 48 -> "0" [] b = 49 -> "1" [] b = 50 -> "2" [] b = 51 -> "3"
      [] b = 52 -> "4" [] b = 53 -> "5" [] b = 54 -> "6" [] b = 55 -> "7"
      [] b = 56 -> "8" [] b = 57 -> "9"
      [] b = 97 -> "a" [] b = 98 -> "b" [] b = 99 -> "c" [] b = 100 -> "d"
      [] b = 101 -> "e" [] b = 102 -> "f"
      [] b = 65 -> "A" [] b = 66 -> "B" [] b = 67 -> "C" [] b = 68 -> "D"
      [] b = 69 -> "E" [] b = 70 -> "F"
      [] OTHER -> "?"

\* a file's content read as text
TextOf(file) == [k \in 1..Len(file.content) |-> Chr(file.content[k])]

\* the text of the destination
Out == TextOf(fs[argv[3]])

CeilDiv(n, d) == (n + d - 1) \div d

LowerHex == [d \in 0..15 |->
    CASE d = 0 -> "0" [] d = 1 -> "1" [] d = 2 -> "2" [] d = 3 -> "3"
      [] d = 4 -> "4" [] d = 5 -> "5" [] d = 6 -> "6" [] d = 7 -> "7"
      [] d = 8 -> "8" [] d = 9 -> "9" [] d = 10 -> "a" [] d = 11 -> "b"
      [] d = 12 -> "c" [] d = 13 -> "d" [] d = 14 -> "e" [] OTHER -> "f"]

\* '0x', two lowercase hexadecimal digits, ', '
ExpectedToken(b) == <<"0", "x", LowerHex[b \div 16], LowerHex[b % 16], ",", " ">>

ExpectedIndent == <<"\n", " ", " ", " ", " ">>

RECURSIVE LeadLen(_)
\* how many characters come before the first "0" of text
LeadLen(text) ==
    IF text = <<>> \/ Head(text) = "0" THEN 0 ELSE 1 + LeadLen(Tail(text))

Min(a, b) == IF a <= b THEN a ELSE b

RECURSIVE Items(_)
\* text cut into items: what precedes a token (lead) and the six
\* characters from its "0" on (text); a rest that is no token still makes
\* an item, so that it is counted and compared
Items(text) ==
    IF text = <<>> THEN <<>>
    ELSE LET n == LeadLen(text)
             e == Min(n + 6, Len(text))
         IN  <<[lead |-> SubSeq(text, 1, n), text |-> SubSeq(text, n + 1, e)]>>
             \o Items(SubSeq(text, e + 1, Len(text)))

\* how many elements of s are c
Count(s, c) == Cardinality({k \in 1..Len(s) : s[k] = c})

IsPrefixOf(p, s) == Len(p) <= Len(s) /\ p = SubSeq(s, 1, Len(p))

RECURSIVE Rendering(_)
\* the documented rendering of a byte sequence
Rendering(bytes) ==
    IF bytes = <<>> THEN <<>>
    ELSE LET n == Len(bytes) - 1
         IN  Rendering(SubSeq(bytes, 1, n))
             \o (IF n % 12 = 0 THEN ExpectedIndent ELSE <<>>)
             \o ExpectedToken(bytes[n + 1])

\* a hexadecimal digit of either case to its value, -1 for anything else
HexValue(c) ==
    CASE c = "0" -> 0 [] c = "1" -> 1 [] c = "2" -> 2 [] c = "3" -> 3
      [] c = "4" -> 4 [] c = "5" -> 5 [] c = "6" -> 6 [] c = "7" -> 7
      [] c = "8" -> 8 [] c = "9" -> 9
      [] c \in {"a", "A"} -> 10 [] c \in {"b", "B"} -> 11
      [] c \in {"c", "C"} -> 12 [] c \in {"d", "D"} -> 13
      [] c \in {"e", "E"} -> 14 [] c \in {"f", "F"} -> 15
      [] OTHER -> -1

\* text without its whitespace and commas
Stripped(text) == SelectSeq(text, LAMBDA c : c \notin {"\n", " ", ","})

RECURSIVE Decode(_)
\* the bytes of a run of '0xNN' groups; <<-1>> from the first group that
\* is not one
Decode(s) ==
    IF s = <<>> THEN <<>>
    ELSE IF Len(s) < 4 \/ s[1] # "0" \/ s[2] # "x"
            \/ HexValue(s[3]) < 0 \/ HexValue(s[4]) < 0
         THEN <<-1>>
         ELSE <<16 * HexValue(s[3]) + HexValue(s[4])>>
              \o Decode(SubSeq(s, 5, Len(s)))

HasConverted == \E k \in 1..Len(stdout) : stdout[k][1] = "Converted"

(* ----------------------------- properties ---------------------------- *)

\* C1: after a successful run the destination holds exactly N tokens, and
\* the k-th is '0x', the two-digit zero-padded lowercase hexadecimal of
\* the k-th byte, then ', ' (255 gives '0xff, ', 0 gives '0x00, '), in
\* the order of the bytes.
C1_TokensMatchBytes ==
    Succeeded =>
        LET it == Items(Out)
        IN  /\ Len(it) = Len(B)
            /\ \A k \in 1..Len(B) :
                  /\ it[k].text = ExpectedToken(B[k])
                  /\ B[k] = 255 => it[k].text = <<"0", "x", "f", "f", ",", " ">>
                  /\ B[k] = 0 => it[k].text = <<"0", "x", "0", "0", ",", " ">>

\* a successful run on thirteen bytes with 255 and 0 among them
C1_Witness ==
    /\ Succeeded
    /\ Len(B) = 13
    /\ \E j, k \in 1..Len(B) : B[j] = 255 /\ B[k] = 0
    /\ Len(Items(Out)) = 13

\* C2: a newline and exactly four spaces come immediately before the
\* token of zero-based index i if and only if i mod 12 = 0, and nowhere
\* else; for N = 13 that is twice, before tokens 0 and 12.
C2_IndentEveryTwelfth ==
    Succeeded =>
        LET it == Items(Out)
        IN  /\ \A k \in 1..Len(it) :
                  /\ (it[k].lead = ExpectedIndent) <=> ((k - 1) % 12 = 0)
                  /\ (k - 1) % 12 # 0 => it[k].lead = <<>>
            /\ Count(Out, "\n") = Cardinality({k \in 1..Len(it) : (k - 1) % 12 = 0})
            /\ Len(B) = 13 => {k \in 1..Len(it) : it[k].lead # <<>>} = {1, 13}
            /\ Len(B) = 25 => {k \in 1..Len(it) : it[k].lead # <<>>} = {1, 13, 25}

\* a successful run on thirteen bytes: two insertions
C2_Witness ==
    /\ Succeeded
    /\ Len(B) = 13
    /\ Count(Out, "\n") = 2

\* C3: stripping whitespace and commas from the output and decoding each
\* '0xNN' gives back the input bytes.
C3_RoundTrip ==
    Succeeded => Decode(Stripped(Out)) = B

\* a successful run whose bytes include one below 16 and one above 159
C3_Witness ==
    /\ Succeeded
    /\ \E j, k \in 1..Len(B) : B[j] < 16 /\ B[k] >= 160
    /\ Decode(Stripped(Out)) = B

\* C4: started with a number of arguments other than two, the program
\* prints the usage message and ends with status 1; it opens neither
\* path, no file changes, and 'Converted' is not printed.
C4_UsageNoFileAccess ==
    Len(argv) # 3 =>
        /\ pc \in {"main", "done"}
        /\ opened = {}
        /\ ~srcOpen /\ ~dstOpen
        /\ fs = fs0
        /\ ~HasConverted
        /\ pc = "done" => /\ stdout = << <<"Usage", argv[1]>> >>
                          /\ exitStatus = <<1>>
                          /\ stderr = <<>>

\* a run with three arguments has ended; the existing out.inl is untouched
C4_Witness ==
    /\ pc = "done"
    /\ Len(argv) = 4
    /\ stdout = << <<"Usage", "convert_spv.py">> >>
    /\ exitStatus = <<1>>
    /\ fs0["out.inl"].kind = "file" /\ fs0["out.inl"].content # <<>>
    /\ fs = fs0

\* C5: the destination after a successful run holds the tokens and the
\* per-12 insertions only: nothing before, nothing after, no trailing
\* newline; N = 0 gives an empty file, the single byte 0 gives
\* '\n    0x00, ', and the length is 6*N + 5*ceil(N/12).
C5_BareTokenSequence ==
    Succeeded =>
        LET N == Len(B)
        IN  /\ fs[argv[3]].kind = "file"
            /\ Len(Out) = 6 * N + 5 * CeilDiv(N, 12)
            /\ N = 0 => Out = <<>>
            /\ B = <<0>> => Out = <<"\n", " ", " ", " ", " ", "0", "x", "0", "0", ",", " ">>
            /\ N > 0 => /\ SubSeq(Out, 1, 7) = <<"\n", " ", " ", " ", " ", "0", "x">>
                        /\ Out[Len(Out) - 1] = ","
                        /\ Out[Len(Out)] = " "
            /\ \A k \in 1..Len(Out) :
                  Out[k] \in {"\n", " ", ",", "x"} \cup {LowerHex[d] : d \in 0..15}

\* a successful run on the single byte 0
C5_Witness ==
    /\ Succeeded
    /\ B = <<0>>
    /\ Len(Out) = 11

\* C6: 'Converted <input> to <output>' is printed at most once, and only
\* when the argument check has passed, the source has been read, all N
\* tokens are in the destination and it is closed; the status is then 0.
\* A run that ends in a usage error or an exception ends with a non-zero
\* status, takes no further step, and does not print 'Converted'.
C6_ConvertedOnlyOnSuccess ==
    /\ Cardinality({k \in 1..Len(stdout) : stdout[k][1] = "Converted"}) <= 1
    /\ HasConverted =>
          /\ pc = "done"
          /\ exitStatus = <<0>>
          /\ stderr = <<>>
          /\ Len(argv) = 3
          /\ stdout = << <<"Converted", argv[2], argv[3]>> >>
          /\ fs0[argv[2]].kind = "file"
          /\ opened = {<<argv[2], "rb">>, <<argv[3], "w">>}
          /\ ~srcOpen /\ ~dstOpen
          /\ Len(Items(Out)) = Len(B)
    /\ Succeeded => HasConverted
    /\ (pc = "done" /\ (Len(argv) # 3 \/ stderr # <<>>)) =>
          /\ exitStatus # <<>>
          /\ exitStatus[1] # 0
          /\ ~HasConverted
    /\ exitStatus # <<>> => pc = "done" /\ ~ENABLED RunStep

\* a run on thirteen bytes has printed the message and ended with status 0
C6_Witness ==
    /\ HasConverted
    /\ exitStatus = <<0>>
    /\ Len(B) = 13
    /\ fs0[argv[3]].kind = "absent"

\* C7: when the source cannot be opened or read, the run fails before the
\* destination is opened: the destination is as it was before the run.
C7_SourceFailureLeavesDestination ==
    (Len(argv) = 3 /\ fs0[argv[2]].kind \in {"absent", "unreadable", "dir", "ioerror"}) =>
        /\ fs = fs0
        /\ <<argv[3], "w">> \notin opened
        /\ ~dstOpen
        /\ pc \in {"main", "open_src", "read", "done"}
        /\ pc = "done" => exitStatus = <<1>> /\ stderr # <<>> /\ stderr[2] \in {5, 6}

\* the source is a directory, the run has failed, an older destination
\* is as it was
C7_Witness ==
    /\ pc = "done"
    /\ Len(argv) = 3
    /\ fs0[argv[2]].kind = "dir"
    /\ stderr = <<"IsADirectoryError", 5>>
    /\ fs0[argv[3]].kind = "file" /\ Len(fs0[argv[3]].content) > 0
    /\ fs[argv[3]] = fs0[argv[3]]

\* C8: after a successful run the destination depends on the input bytes
\* alone: it equals what the first successful run on the same source left,
\* whatever the destination was before either run, and holds nothing of
\* the prior content.
C8_DestinationFromInputAlone ==
    Succeeded =>
        /\ fs[argv[3]].kind = "file"
        /\ \A k \in 1..Len(Out) : Out[k] # "#"
        /\ prevRun.set => fs[argv[3]].content = prevRun.content

\* two successful runs on the same non-empty source: the first with no
\* destination file, this one over a longer older content
C8_Witness ==
    /\ Succeeded
    /\ prevRun.set /\ prevRun.fresh
    /\ fs0[argv[3]].kind = "file" /\ Len(fs0[argv[3]].content) > Len(Out)
    /\ Len(B) > 0
    /\ fs[argv[3]].content = prevRun.content

\* C9: no handle is open in a terminal state, whichever way the run ended,
\* and the source handle is released before the destination is opened: at
\* most one handle is open at any time.
C9_HandlesReleased ==
    /\ ~(srcOpen /\ dstOpen)
    /\ pc = "done" => ~srcOpen /\ ~dstOpen
    /\ (Len(argv) = 3 /\ <<argv[3], "w">> \in opened) => ~srcOpen
    /\ srcOpen => pc = "read"
    /\ dstOpen => pc \in {"loop", "token"}

\* a write failed partway through the loop, and both handles are released
C9_Witness ==
    /\ RaisedAt({12})
    /\ opened = {<<"in.spv", "rb">>, <<"out.inl", "w">>}
    /\ Len(Out) > 0 /\ Len(Out) < 6 * Len(B)
    /\ ~srcOpen /\ ~dstOpen

\* the prefix invariant of the write loop: once the destination is open,
\* what has been handed to it is a prefix of the complete rendering of the
\* input; when the loop has processed i bytes it holds exactly i complete
\* tokens and ceil(i/12) insertions; if writing fails partway, the
\* destination holds a prefix of the full output.
PrefixInvariant ==
    /\ dstOpen => /\ data = B
                  /\ IsPrefixOf(handed, Rendering(data))
    /\ (dstOpen /\ pc = "loop") =>
          LET it == Items(handed)
          IN  /\ Len(it) = i
              /\ \A k \in 1..Len(it) : Len(it[k].text) = 6
              /\ Count(handed, "\n") = CeilDiv(i, 12)
              /\ handed = Rendering(SubSeq(data, 1, i))
    /\ (RaisedAt({8, 11, 12}) /\ stderr[1] = "OSError") =>
          IsPrefixOf(Out, Rendering(B))

\* the source file holds the bytes it held when the run started
SourceUnchanged == Len(argv) = 3 => fs[argv[2]] = fs0[argv[2]]

\* the same, when the two paths differ
SourceUnchangedDistinctPaths ==
    (Len(argv) = 3 /\ argv[3] # argv[2]) => fs[argv[2]] = fs0[argv[2]]

\* C10: the prefix invariant of the write loop holds at every point, and
\* the source file's bytes are unchanged.
C10_PrefixInvariantSourceUnchanged == PrefixInvariant /\ SourceUnchanged

=============================================================================
